---- MODULE Spec2Model ----
(***************************************************************************)
(* Model of the Dyson cloud client (DysonClient) and of the MCP tool-call  *)
(* handler of src/src/index.ts.                                            *)
(*                                                                         *)
(* JavaScript strings that the code inspects character by character        *)
(* (parseInt, toUpperCase, padStart) are sequences of one-character        *)
(* strings.  JavaScript numbers are records [nan, v]: v is the value, in   *)
(* the unit the definition names, and nan marks NaN.                       *)
(***************************************************************************)
EXTENDS Integers, Sequences, FiniteSets, TLC

VARIABLES authToken, devices, call, pIn, pOut,
          fetched   \* history: a manifest fetch has succeeded on this client

vars == <<authToken, devices, call, pIn, pOut, fetched>>

-----------------------------------------------------------------------------
(* Bounds of the model                                                     *)

\* largest tact wire value (tenths of a kelvin) drawn for the temperature
\* conversion
MaxTact == 4000
\* largest pm25 reading drawn for getAirQualityLevel, in tenths of ug/m3
MaxPm25Tenths == 2600
\* most devices in one manifest response
MaxDevices == 2
\* most HTTP requests one call may send before the model stops following it
MaxReq == 6

\* bound on the requests of one call when two calls interleave
MaxConcReq == 4

-----------------------------------------------------------------------------
(* JavaScript values                                                       *)

Digits == {"0", "1", "2", "3", "4", "5", "6", "7", "8", "9"}

DigitVal(ch) ==
  CASE ch = "0" -> 0 [] ch = "1" -> 1 [] ch = "2" -> 2 [] ch = "3" -> 3
    [] ch = "4" -> 4 [] ch = "5" -> 5 [] ch = "6" -> 6 [] ch = "7" -> 7
    [] ch = "8" -> 8 [] ch = "9" -> 9

DigitChar(n) ==
  CASE n = 0 -> "0" [] n = 1 -> "1" [] n = 2 -> "2" [] n = 3 -> "3"
    [] n = 4 -> "4" [] n = 5 -> "5" [] n = 6 -> "6" [] n = 7 -> "7"
    [] n = 8 -> "8" [] n = 9 -> "9"

NaN == [nan |-> TRUE, v |-> 0]

Num(n) == [nan |-> FALSE, v |-> n]

isNaN(x) == x.nan

\* x < n and x > n of JavaScript: false when x is NaN
NumLt(x, n) == ~x.nan /\ x.v < n

NumGt(x, n) == ~x.nan /\ x.v > n

NumLe(x, n) == ~x.nan /\ x.v <= n

\* the value undefined of an optional string (device_id, a missing argument)
Undefined == "<undefined>"

\* truthiness of an optional string held as a TLA+ string
Truthy(s) == s # Undefined /\ s # ""

\* truthiness of a string held as a character sequence
TruthyChars(s) == Len(s) > 0

UpperChar(ch) ==
  CASE ch = "a" -> "A" [] ch = "u" -> "U" [] ch = "t" -> "T" [] ch = "o" -> "O"
    [] OTHER -> ch

toUpperCase(s) == [i \in 1..Len(s) |-> UpperChar(s[i])]

RECURSIVE SkipSpaces(_)
SkipSpaces(s) ==
  IF Len(s) > 0 /\ s[1] = " " THEN SkipSpaces(Tail(s)) ELSE s

RECURSIVE DigitPrefix(_)
DigitPrefix(s) ==
  IF Len(s) > 0 /\ s[1] \in Digits THEN <<s[1]>> \o DigitPrefix(Tail(s)) ELSE <<>>

RECURSIVE DigitsValue(_)
DigitsValue(d) ==
  IF Len(d) = 0 THEN 0
  ELSE 10 * DigitsValue(SubSeq(d, 1, Len(d) - 1)) + DigitVal(d[Len(d)])

\* parseInt(s, 10): leading white space is skipped, one sign is accepted, the
\* longest prefix of decimal digits is converted and whatever follows it is
\* ignored; NaN when no digit is found
parseInt(s) ==
  LET t == SkipSpaces(s)
      signed == Len(t) > 0 /\ t[1] \in {"+", "-"}
      u == IF signed THEN Tail(t) ELSE t
      d == DigitPrefix(u)
  IN IF Len(d) = 0 THEN NaN
     ELSE IF signed /\ t[1] = "-" THEN Num(0 - DigitsValue(d))
     ELSE Num(DigitsValue(d))

RECURSIVE NatToString(_)
NatToString(n) ==
  IF n < 10 THEN <<DigitChar(n)>>
  ELSE NatToString(n \div 10) \o <<DigitChar(n % 10)>>

\* Number.prototype.toString of an integer or NaN
toString(x) ==
  IF x.nan THEN <<"N", "a", "N">>
  ELSE IF x.v < 0 THEN <<"-">> \o NatToString(0 - x.v)
  ELSE NatToString(x.v)

RECURSIVE padStart(_, _, _)
padStart(s, n, ch) == IF Len(s) >= n THEN s ELSE padStart(<<ch>> \o s, n, ch)

\* Math.round of the rational x10 / 10: the nearest integer, a half rounded up
MathRoundTenths(x10) == (x10 + 5) \div 10

-----------------------------------------------------------------------------
(* DysonClient: the conversions between the agent's vocabulary and the     *)
(* wire state                                                              *)

AUTO == <<"A", "U", "T", "O">>

\* setFanSpeed that leaves the power as it is
setFanSpeedBodyPowerUntouched(speed) ==
  LET speedNum == parseInt(speed)
  IN IF toUpperCase(speed) = AUTO
     THEN [throws |-> FALSE, state |-> [fnsp |-> AUTO, auto |-> "ON"]]
     ELSE IF isNaN(speedNum) \/ NumLt(speedNum, 1) \/ NumGt(speedNum, 10)
     THEN [throws |-> TRUE, state |-> <<>>]
     ELSE [throws |-> FALSE,
           state |-> [fnsp |-> padStart(toString(speedNum), 4, "0"),
                      auto |-> "OFF"]]

\* setFanSpeed up to its call of setDeviceState: the error it throws, or the
\* partial wire state it passes on
setFanSpeedBody(speed) ==
  LET normalizedSpeed == toUpperCase(speed)
      speedNum == parseInt(speed)
  IN IF normalizedSpeed = AUTO
     THEN [throws |-> FALSE,
           state |-> [fnsp |-> AUTO, auto |-> "ON", fpwr |-> "ON"]]
     ELSE IF isNaN(speedNum) \/ NumLt(speedNum, 1) \/ NumGt(speedNum, 10)
     THEN [throws |-> TRUE, state |-> <<>>]
     ELSE [throws |-> FALSE,
           state |-> [fnsp |-> padStart(toString(speedNum), 4, "0"),
                      auto |-> "OFF", fpwr |-> "ON"]]

parseFanSpeed(fnsp) ==
  IF fnsp = AUTO THEN <<"a", "u", "t", "o">> ELSE toString(parseInt(fnsp))

\* kelvinToCelsius that cuts the second decimal off instead of rounding
kelvinToCelsiusTruncates(kelvin) ==
  IF kelvin.nan THEN NaN ELSE Num((10 * kelvin.v - 27315) \div 10)

\* kelvin.v is in tenths of a kelvin (the wire value); the result is in tenths
\* of a degree Celsius.  (kelvin - 273.15) * 10 is (10 * kelvin.v - 27315) / 10.
\* The double arithmetic of the source gives the same integer as this exact
\* arithmetic for every wire value 0..10240 (up to 1024 K); the definition
\* models the conversion on that range.
kelvinToCelsius(kelvin) ==
  IF kelvin.nan THEN NaN ELSE Num(MathRoundTenths(10 * kelvin.v - 27315))

\* state.f used as a condition: the field is present and not the empty string
FieldSet(state, f) == f \in DOMAIN state /\ TruthyChars(state[f])

Null == [null |-> TRUE]

\* parseAirQuality that takes any sensor field for air quality data
parseAirQualityAnySensor(state) ==
  IF \A f \in {"pm25", "pact", "hact", "tact", "pm10", "vact", "noxl"} :
       ~FieldSet(state, f)
  THEN Null
  ELSE [pm25 |-> IF FieldSet(state, "pm25") THEN parseInt(state.pm25)
                 ELSE IF FieldSet(state, "pact") THEN parseInt(state.pact)
                 ELSE Num(0),
        pm10 |-> IF FieldSet(state, "pm10") THEN parseInt(state.pm10) ELSE Num(0),
        voc |-> IF FieldSet(state, "vact") THEN parseInt(state.vact) ELSE Num(0),
        no2 |-> IF FieldSet(state, "noxl") THEN parseInt(state.noxl) ELSE Num(0),
        humidity |-> IF FieldSet(state, "hact") THEN parseInt(state.hact) ELSE Num(0),
        temperature |-> IF FieldSet(state, "tact")
                        THEN kelvinToCelsius(parseInt(state.tact))
                        ELSE Num(0)]

parseAirQuality(state) ==
  IF ~FieldSet(state, "pm25") /\ ~FieldSet(state, "pact") /\ ~FieldSet(state, "hact")
  THEN Null
  ELSE [pm25 |-> IF FieldSet(state, "pm25") THEN parseInt(state.pm25)
                 ELSE IF FieldSet(state, "pact") THEN parseInt(state.pact)
                 ELSE Num(0),
        pm10 |-> IF FieldSet(state, "pm10") THEN parseInt(state.pm10) ELSE Num(0),
        voc |-> IF FieldSet(state, "vact") THEN parseInt(state.vact) ELSE Num(0),
        no2 |-> IF FieldSet(state, "noxl") THEN parseInt(state.noxl) ELSE Num(0),
        humidity |-> IF FieldSet(state, "hact") THEN parseInt(state.hact) ELSE Num(0),
        temperature |-> IF FieldSet(state, "tact")
                        THEN kelvinToCelsius(parseInt(state.tact))
                        ELSE Num(0)]

\* getAirQualityLevel whose bounds are exclusive
getAirQualityLevelExclusive(pm25) ==
  IF NumLt(pm25, 12 * 10) THEN "Good"
  ELSE IF NumLt(pm25, 35 * 10) THEN "Moderate"
  ELSE IF NumLt(pm25, 55 * 10) THEN "Unhealthy for Sensitive Groups"
  ELSE IF NumLt(pm25, 150 * 10) THEN "Unhealthy"
  ELSE IF NumLt(pm25, 250 * 10) THEN "Very Unhealthy"
  ELSE "Hazardous"

\* pm25.v is in tenths of ug/m3, so that 12.1 and 250.5 are inputs
getAirQualityLevel(pm25) ==
  IF NumLe(pm25, 12 * 10) THEN "Good"
  ELSE IF NumLe(pm25, 35 * 10) THEN "Moderate"
  ELSE IF NumLe(pm25, 55 * 10) THEN "Unhealthy for Sensitive Groups"
  ELSE IF NumLe(pm25, 150 * 10) THEN "Unhealthy"
  ELSE IF NumLe(pm25, 250 * 10) THEN "Very Unhealthy"
  ELSE "Hazardous"

\* the whole number n as a reading in tenths
Tenths(x) == IF x.nan THEN NaN ELSE Num(10 * x.v)

OnOff(b) == IF b THEN "ON" ELSE "OFF"

-----------------------------------------------------------------------------
(* The vendor cloud, as the client sees it                                 *)

Statuses == {200, 401, 500}

\* response.ok
ok(status) == status >= 200 /\ status <= 299

statusText(status) ==
  CASE status = 200 -> "OK" [] status = 401 -> "Unauthorized"
    [] OTHER -> "Internal Server Error"

\* the Account field of a successful authentication response
Accounts == {"tok1", "tok2"}

\* authToken = null
NoToken == "<null>"

\* !this.authToken
TokenAbsent(tok) == tok = NoToken \/ tok = Undefined \/ tok = ""

\* the entries a manifest response may carry
RawDevices ==
  {[Serial |-> "S1", Name |-> "Bedroom", ProductType |-> "438",
    ConnectionType |-> "wss", LocalCredentials |-> "c1"],
   [Serial |-> "S2", Name |-> "", ProductType |-> "999",
    ConnectionType |-> "wss", LocalCredentials |-> "c2"]}

SeqsUpTo(S, n) == UNION {[1..k -> S] : k \in 0..n}

Manifests == SeqsUpTo(RawDevices, MaxDevices)

\* the wire states a state GET (or the echo of a PATCH) may carry
WireStates ==
  {[fpwr |-> "ON", fnsp |-> <<"0", "0", "0", "7">>, oson |-> "OFF",
    nmod |-> "OFF", auto |-> "OFF"],
   [fpwr |-> "ON", fnsp |-> AUTO, oson |-> "ON", nmod |-> "ON", auto |-> "ON",
    pm25 |-> <<"1", "3">>, hact |-> <<"4", "5">>, tact |-> <<"2", "9", "8", "2">>],
   [fpwr |-> "OFF", fnsp |-> <<"0", "0", "1", "0">>, oson |-> "OFF",
    nmod |-> "ON", auto |-> "OFF", pm25 |-> <<>>, tact |-> <<"2", "9", "3", "1">>]}

DEVICE_TYPES ==
  [t \in {"358", "438", "455", "469", "475", "520", "527"} |->
    CASE t = "358" -> "Pure Humidify+Cool"
      [] t = "438" -> "Pure Cool Formaldehyde"
      [] t = "455" -> "Pure Hot+Cool Link"
      [] t = "469" -> "Pure Cool Link Desk"
      [] t = "475" -> "Pure Cool Link Tower"
      [] t = "520" -> "Pure Cool"
      [] t = "527" -> "Pure Hot+Cool"]

\* the descriptor getDevices builds from one manifest entry
mapDevice(device) ==
  [serial |-> device.Serial,
   name |-> IF device.Name # "" THEN device.Name ELSE "Dyson " \o device.ProductType,
   productType |-> device.ProductType,
   productTypeName |-> IF device.ProductType \in DOMAIN DEVICE_TYPES
                       THEN DEVICE_TYPES[device.ProductType]
                       ELSE "Unknown Dyson Device",
   connectionType |-> device.ConnectionType,
   localCredentials |-> device.LocalCredentials]

mapManifest(data) == [i \in 1..Len(data) |-> mapDevice(data[i])]

-----------------------------------------------------------------------------
(* One call on the client: its position, its local variables and, as       *)
(* history, the requests it has sent and the responses it has read         *)

NoArgs == [x \in {} |-> ""]

NoDevice == [none |-> TRUE]

NoState == [x \in {} |-> ""]

NoResult == [pending |-> TRUE]

\* const data, before the body of the authentication response is read
NoData == [none |-> TRUE]

HandlerTools ==
  {"get_device_status", "set_fan_speed", "set_oscillation", "get_air_quality",
   "set_night_mode"}

IdleCall ==
  [pc |-> "idle", via |-> "none", tool |-> "none", args |-> NoArgs,
   method |-> "none", authFrom |-> "none", deviceId |-> Undefined,
   device |-> NoDevice, state |-> NoState, reqs |-> <<>>, resps |-> <<>>,
   getResp |-> NoState, status |-> NoDevice, data |-> NoData,
   result |-> NoResult]

\* a configuration: the client's fields and the running call
Cfg(tok, devs, k) == [tok |-> tok, devs |-> devs, k |-> k]

\* the catch clause of the tool-call handler
catchError(errorMessage) ==
  [content |-> [type |-> "text", text |-> "Error: " \o errorMessage],
   isError |-> TRUE]

\* an error that no catch clause stops
ThrowUncaught(cfg, message) ==
  [cfg EXCEPT !.k.pc = "done", !.k.result = [thrown |-> message]]

\* throw new Error(message): nothing in the client catches, so the error
\* reaches the handler's catch clause, or the caller of a direct call
Throw(cfg, message) ==
  [cfg EXCEPT !.k.pc = "done",
              !.k.result = IF cfg.k.via = "handler" THEN catchError(message)
                           ELSE [thrown |-> message]]

\* fetch(...): the request leaves with the token the client holds now
Fetch(cfg, kind, serial, body) ==
  [cfg EXCEPT !.k.pc = kind,
              !.k.reqs = Append(@, [kind |-> kind, serial |-> serial,
                                    token |-> cfg.tok, state |-> body])]

\* await fetch(...): the response, with its status, has arrived
Received(cfg, status) == [cfg EXCEPT !.k.resps = Append(@, status)]

\* authenticate(), up to its POST
authenticate(cfg, from) ==
  Fetch([cfg EXCEPT !.k.authFrom = from], "AUTH", "", NoState)

\* getDevices(), from the manifest fetch on
getDevicesFetch(cfg) == Fetch(cfg, "MANIFEST", "", NoState)

\* getDevices(), up to its first await that reaches the network
getDevices(cfg) ==
  IF TokenAbsent(cfg.tok) THEN authenticate(cfg, "getDevices")
  ELSE getDevicesFetch(cfg)

\* the state request of getDeviceStatus or setDeviceState for the resolved device
stateFetch(cfg, device) ==
  LET c1 == [cfg EXCEPT !.k.device = device]
  IN IF cfg.k.method = "setDeviceState"
     THEN Fetch(c1, "PATCH", device.serial, cfg.k.state)
     ELSE Fetch(c1, "GET", device.serial, NoState)

FirstIndex(devs, serial) ==
  CHOOSE i \in 1..Len(devs) :
    /\ devs[i].serial = serial
    /\ \A j \in 1..(i - 1) : devs[j].serial # serial

\* getDevice that falls back to the first device when the id is unknown
getDeviceLookupFallsBack(cfg) ==
  LET deviceId == cfg.k.deviceId
  IN IF Len(cfg.devs) = 0
     THEN Throw(cfg, "No Dyson devices found in account")
     ELSE IF \E i \in 1..Len(cfg.devs) : cfg.devs[i].serial = deviceId
     THEN stateFetch(cfg, cfg.devs[FirstIndex(cfg.devs, deviceId)])
     ELSE stateFetch(cfg, cfg.devs[1])

\* getDevice(deviceId) once the directory has been looked at: the lookup, and
\* then the caller's request for the device found
getDeviceLookup(cfg) ==
  LET deviceId == cfg.k.deviceId
  IN IF Truthy(deviceId)
     THEN IF \E i \in 1..Len(cfg.devs) : cfg.devs[i].serial = deviceId
          THEN stateFetch(cfg, cfg.devs[FirstIndex(cfg.devs, deviceId)])
          ELSE Throw(cfg, "Device not found: " \o deviceId)
     ELSE IF Len(cfg.devs) = 0
          THEN Throw(cfg, "No Dyson devices found in account")
          ELSE stateFetch(cfg, cfg.devs[1])

\* getDevice that fetches the manifest on every resolution
getDeviceAlwaysFetches(cfg) == getDevices(cfg)

getDevice(cfg) ==
  IF Len(cfg.devs) = 0 THEN getDevices(cfg) ELSE getDeviceLookup(cfg)

\* the common opening of getDeviceStatus and setDeviceState
ensureSession(cfg) ==
  IF TokenAbsent(cfg.tok) THEN authenticate(cfg, "method") ELSE getDevice(cfg)

getDeviceStatus(cfg, deviceId) ==
  ensureSession([cfg EXCEPT !.k.method = "getDeviceStatus", !.k.deviceId = deviceId])

setDeviceState(cfg, deviceId, state) ==
  ensureSession([cfg EXCEPT !.k.method = "setDeviceState",
                            !.k.deviceId = deviceId, !.k.state = state])

-----------------------------------------------------------------------------
(* What the client does when a response arrives                            *)

\* authenticate that posts the credentials again when the cloud refuses them
authenticateResponseRetries(cfg0, status, account) ==
  LET cfg == Received(cfg0, status)
  IN IF ~ok(status)
  THEN authenticate(cfg, cfg.k.authFrom)
  ELSE LET c1 == [cfg EXCEPT !.tok = account, !.k.authFrom = "none",
                             !.k.data = [Account |-> account]]
       IN CASE cfg.k.authFrom = "method" -> getDevice(c1)
            [] cfg.k.authFrom = "getDevices" -> getDevicesFetch(c1)
            [] cfg.k.authFrom = "getDevices401" -> getDevices(c1)

\* authenticate(), from the response of its POST, and then its caller
authenticateResponse(cfg0, status, account) ==
  LET cfg == Received(cfg0, status)
  IN IF ~ok(status)
  THEN IF status = 401 THEN Throw(cfg, "Invalid Dyson credentials")
       ELSE Throw(cfg, "Authentication failed: " \o ToString(status) \o " "
                       \o statusText(status))
  ELSE LET c1 == [cfg EXCEPT !.tok = account, !.k.authFrom = "none",
                             !.k.data = [Account |-> account]]
       IN CASE cfg.k.authFrom = "method" -> getDevice(c1)
            [] cfg.k.authFrom = "getDevices" -> getDevicesFetch(c1)
            [] cfg.k.authFrom = "getDevices401" -> getDevices(c1)

\* getDevices(), from the manifest response, and then its caller
getDevicesResponse(cfg0, status, data) ==
  LET cfg == Received(cfg0, status)
  IN IF ~ok(status)
  THEN IF status = 401
       THEN authenticate([cfg EXCEPT !.tok = NoToken], "getDevices401")
       ELSE Throw(cfg, "Failed to get devices: " \o ToString(status))
  ELSE LET c1 == [cfg EXCEPT !.devs = mapManifest(data)]
       IN IF cfg.k.method = "getDevices"
          THEN [c1 EXCEPT !.k.pc = "done", !.k.result = [returned |-> c1.devs]]
          ELSE getDeviceLookup(c1)

\* the projection of a wire state to a DeviceStatus
projectStatus(device, state) ==
  [serial |-> device.serial,
   name |-> device.name,
   power |-> state.fpwr = "ON",
   fanSpeed |-> parseFanSpeed(state.fnsp),
   oscillation |-> state.oson = "ON",
   nightMode |-> state.nmod = "ON",
   autoMode |-> state.auto = "ON",
   airQuality |-> parseAirQuality(state)]

\* celsius.v is in tenths of a degree; Math.round(c * 9/5 + 32) is
\* floor((9 * celsius.v + 1625) / 50)
formatTemperature(celsius, unit) ==
  IF unit = "F"
  THEN [value |-> IF celsius.nan THEN NaN
                  ELSE Num((9 * celsius.v + 1625) \div 50), suffix |-> "F"]
  ELSE [value |-> celsius, suffix |-> "C"]

onOff(b) == IF b THEN "on" ELSE "off"

indexDescription(x) ==
  IF NumLt(x, 3) THEN "Low" ELSE IF NumLt(x, 6) THEN "Moderate" ELSE "High"

\* the text of a successful tool call (the object given to JSON.stringify)
formatResult(tool, args, status) ==
  CASE tool = "get_device_status" ->
         [device |-> [serial |-> status.serial, name |-> status.name],
          state |-> [power |-> onOff(status.power), fanSpeed |-> status.fanSpeed,
                     oscillation |-> onOff(status.oscillation),
                     nightMode |-> onOff(status.nightMode),
                     autoMode |-> onOff(status.autoMode)],
          airQuality |->
            IF status.airQuality # Null
            THEN [pm25 |-> status.airQuality.pm25,
                  pm10 |-> status.airQuality.pm10,
                  voc |-> status.airQuality.voc,
                  no2 |-> status.airQuality.no2,
                  humidity |-> status.airQuality.humidity,
                  temperature |-> formatTemperature(status.airQuality.temperature, "C"),
                  level |-> getAirQualityLevel(Tenths(status.airQuality.pm25))]
            ELSE Null]
    [] tool = "set_fan_speed" ->
         [message |-> <<"Fan speed set to ", status.fanSpeed>>,
          device |-> status.name,
          newState |-> [power |-> onOff(status.power), fanSpeed |-> status.fanSpeed,
                        autoMode |-> onOff(status.autoMode)]]
    [] tool = "set_oscillation" ->
         [message |-> IF args.enabled THEN "Oscillation enabled"
                      ELSE "Oscillation disabled",
          device |-> status.name,
          oscillation |-> onOff(status.oscillation)]
    [] tool = "set_night_mode" ->
         [message |-> IF args.enabled THEN "Night mode enabled"
                      ELSE "Night mode disabled",
          device |-> status.name,
          nightMode |-> onOff(status.nightMode)]
    [] tool = "get_air_quality" ->
         LET airQuality == status.airQuality
         IN [pm25 |-> [value |-> airQuality.pm25,
                       level |-> getAirQualityLevel(Tenths(airQuality.pm25))],
             pm10 |-> [value |-> airQuality.pm10],
             voc |-> [value |-> airQuality.voc,
                      description |-> indexDescription(airQuality.voc)],
             no2 |-> [value |-> airQuality.no2,
                      description |-> indexDescription(airQuality.no2)],
             humidity |-> [value |-> airQuality.humidity,
                           description |->
                             IF NumLt(airQuality.humidity, 30) THEN "Too dry"
                             ELSE IF NumGt(airQuality.humidity, 60) THEN "Too humid"
                             ELSE "Comfortable"],
             temperature |-> [celsius |-> airQuality.temperature,
                              fahrenheit |->
                                formatTemperature(airQuality.temperature, "F").value]]

\* the DeviceStatus reaches the tool-call handler (through getAirQuality for
\* get_air_quality), which returns the payload
returnStatus(cfg, status) ==
  LET c1 == [cfg EXCEPT !.k.status = status]
  IN IF cfg.k.tool = "get_air_quality" /\ status.airQuality = Null
     THEN Throw(c1, "Air quality data not available for this device")
     ELSE [c1 EXCEPT !.k.pc = "done",
                     !.k.result =
                       [content |-> [type |-> "text",
                                     text |-> formatResult(cfg.k.tool, cfg.k.args, status)]]]

\* getDeviceStatus(), from the response of its state GET
getDeviceStatusResponse(cfg0, status, state) ==
  LET cfg == Received(cfg0, status)
      c1 == [cfg EXCEPT !.k.getResp = state]
  IN IF ~ok(status)
     THEN Throw(cfg, "Failed to get device status: " \o ToString(status))
     ELSE returnStatus(c1, projectStatus(cfg.k.device, state))

\* setDeviceState that returns the status the PATCH response carries
setDeviceStateResponseTrustsPatch(cfg0, status, echo) ==
  LET cfg == Received(cfg0, status)
  IN IF ~ok(status)
     THEN Throw(cfg, "Failed to set device state: " \o ToString(status))
     ELSE returnStatus(cfg, projectStatus(cfg.k.device, echo))

\* setDeviceState(), from the response of its PATCH; echo is the body of the
\* response, which the code never reads
setDeviceStateResponse(cfg0, status, echo) ==
  LET cfg == Received(cfg0, status)
  IN IF ~ok(status)
  THEN Throw(cfg, "Failed to set device state: " \o ToString(status))
  ELSE getDeviceStatus(cfg, cfg.k.device.serial)

-----------------------------------------------------------------------------
(* The entry points: the tool-call handler and a direct getDevices()       *)

setFanSpeed(cfg, deviceId, speed) ==
  LET b == setFanSpeedBody(speed)
  IN IF b.throws THEN Throw(cfg, "Fan speed must be 1-10 or \"auto\"")
     ELSE setDeviceState(cfg, deviceId, b.state)

setOscillation(cfg, deviceId, enabled) ==
  setDeviceState(cfg, deviceId, [oson |-> OnOff(enabled)])

setNightMode(cfg, deviceId, enabled) ==
  setDeviceState(cfg, deviceId, [nmod |-> OnOff(enabled)])

getAirQuality(cfg, deviceId) == getDeviceStatus(cfg, deviceId)

\* the tool-call handler, up to the first request of the client method it calls
callTool(cfg, name, args) ==
  LET deviceId == IF "device_id" \in DOMAIN args THEN args.device_id ELSE Undefined
  IN CASE name = "get_device_status" -> getDeviceStatus(cfg, deviceId)
       [] name = "set_fan_speed" ->
            IF "speed" \notin DOMAIN args \/ Len(args.speed.value) = 0
            THEN Throw(cfg, "Speed is required. Use 1-10 or \"auto\"")
            ELSE IF args.speed.type # "string"
            THEN Throw(cfg, "speed.toUpperCase is not a function")
            ELSE setFanSpeed(cfg, deviceId, args.speed.value)
       [] name = "set_oscillation" ->
            IF "enabled" \notin DOMAIN args
            THEN Throw(cfg, "Enabled parameter is required (true/false)")
            ELSE setOscillation(cfg, deviceId, args.enabled)
       [] name = "get_air_quality" -> getAirQuality(cfg, deviceId)
       [] name = "set_night_mode" ->
            IF "enabled" \notin DOMAIN args
            THEN Throw(cfg, "Enabled parameter is required (true/false)")
            ELSE setNightMode(cfg, deviceId, args.enabled)
       [] OTHER -> Throw(cfg, "Unknown tool: " \o name)

\* the inputs of the tool calls
ToolNames == HandlerTools \cup {"reboot"}

DeviceIds == {"", "S1", "S2", "S9"}

DeviceIdArgs == {NoArgs} \cup {[device_id |-> d] : d \in DeviceIds}

StringArg(s) == [type |-> "string", value |-> s]

\* "auto" in every letter case
AutoSpellings ==
  {<<a, u, t, o>> : a \in {"a", "A"}, u \in {"u", "U"}, t \in {"t", "T"},
                    o \in {"o", "O"}}

HandlerSpeeds ==
  {StringArg(<<"7", "a", "b", "c">>), StringArg(<<"3", ".", "5">>),
   StringArg(<<"f", "a", "s", "t">>), StringArg(<<" ", "a", "u", "t", "o">>),
   StringArg(<<"-", "1">>), StringArg(<<>>),
   [type |-> "number", value |-> <<"7">>]}
  \cup {StringArg(s) : s \in AutoSpellings}
  \cup {StringArg(NatToString(n)) : n \in 0..11}

SpeedArgs == {NoArgs} \cup {[speed |-> v] : v \in HandlerSpeeds}

EnabledArgs == {NoArgs} \cup {[enabled |-> b] : b \in BOOLEAN}

ToolArgs(name) ==
  CASE name = "set_fan_speed" -> {a @@ b : a \in DeviceIdArgs, b \in SpeedArgs}
    [] name \in {"set_oscillation", "set_night_mode"} ->
         {a @@ b : a \in DeviceIdArgs, b \in EnabledArgs}
    [] OTHER -> DeviceIdArgs

-----------------------------------------------------------------------------
(* The client as a state machine                                           *)

Calls == {"a"}

Init ==
  /\ authToken = NoToken
  /\ devices = <<>>
  /\ call = [c \in Calls |-> IdleCall]
  /\ pIn = [fn |-> "none"]
  /\ pOut = [fn |-> "none"]
  /\ fetched = FALSE

\* a manifest fetch of call record k has succeeded
ManifestFetchedBy(k) ==
  \E i \in 1..Len(k.resps) : k.reqs[i].kind = "MANIFEST" /\ ok(k.resps[i])

\* the step of call c that ends in configuration n
Step(c, n) ==
  /\ Len(n.k.reqs) <= MaxReq
  /\ authToken' = n.tok
  /\ devices' = n.devs
  /\ call' = [call EXCEPT ![c] = n.k]
  /\ fetched' = (fetched \/ ManifestFetchedBy(n.k))
  /\ UNCHANGED <<pIn, pOut>>

Here(c) == Cfg(authToken, devices, call[c])

CallTool ==
  \E c \in DOMAIN call :
    /\ call[c].pc = "idle"
    /\ \E name \in ToolNames : \E args \in ToolArgs(name) :
         Step(c, callTool(Cfg(authToken, devices,
                              [IdleCall EXCEPT !.via = "handler", !.tool = name,
                                               !.args = args]),
                          name, args))

CallGetDevices ==
  \E c \in DOMAIN call :
    /\ call[c].pc = "idle"
    /\ Step(c, getDevices(Cfg(authToken, devices,
                              [IdleCall EXCEPT !.via = "direct", !.tool = "getDevices",
                                               !.method = "getDevices"])))

AuthResponse ==
  \E c \in DOMAIN call :
    /\ call[c].pc = "AUTH"
    /\ \E status \in Statuses : \E account \in Accounts :
         Step(c, authenticateResponse(Here(c), status, account))

ManifestResponse ==
  \E c \in DOMAIN call :
    /\ call[c].pc = "MANIFEST"
    /\ \E status \in Statuses : \E data \in Manifests :
         Step(c, getDevicesResponse(Here(c), status, data))

StateResponse ==
  \E c \in DOMAIN call :
    /\ call[c].pc = "GET"
    /\ \E status \in Statuses : \E state \in WireStates :
         Step(c, getDeviceStatusResponse(Here(c), status, state))

PatchResponse ==
  \E c \in DOMAIN call :
    /\ call[c].pc = "PATCH"
    /\ \E status \in Statuses : \E echo \in WireStates :
         Step(c, setDeviceStateResponse(Here(c), status, echo))

\* the caller has the outcome of the call: the call is over
Return ==
  \E c \in DOMAIN call :
    /\ call[c].pc = "done"
    /\ call' = [call EXCEPT ![c] = IdleCall]
    /\ UNCHANGED <<authToken, devices, pIn, pOut, fetched>>

Next ==
  \/ CallTool
  \/ CallGetDevices
  \/ AuthResponse
  \/ ManifestResponse
  \/ StateResponse
  \/ PatchResponse
  \/ Return

Spec == Init /\ [][Next]_vars

\* the client behind the tool-call handler only: every call is a tool call,
\* which reaches getDevices through a device resolution and never directly
NextTools ==
  \/ CallTool
  \/ AuthResponse
  \/ ManifestResponse
  \/ StateResponse
  \/ PatchResponse
  \/ Return

SpecTools == Init /\ [][NextTools]_vars

-----------------------------------------------------------------------------
(* Two calls on one client.  A call runs without interruption from one     *)
(* network await to the next (JavaScript runs one callback at a time), and *)
(* while it waits for its response the other call may run: the steps of    *)
(* the two calls interleave at their requests.                             *)

ConcCalls == {"a", "b"}

ConcTools == {"get_device_status", "set_oscillation"}

ConcArgs(name) ==
  IF name = "set_oscillation" THEN {[enabled |-> TRUE]} ELSE {NoArgs}

ConcStatuses == {200, 401}

ConcAccount == "tok1"

ConcManifests == SeqsUpTo(RawDevices, 1)

ConcWireState ==
  [fpwr |-> "ON", fnsp |-> AUTO, oson |-> "ON", nmod |-> "OFF", auto |-> "ON"]

InitConc ==
  /\ authToken = NoToken
  /\ devices = <<>>
  /\ call = [c \in ConcCalls |-> IdleCall]
  /\ pIn = [fn |-> "none"]
  /\ pOut = [fn |-> "none"]
  /\ fetched = FALSE

ConcStep(c, n) == Len(n.k.reqs) <= MaxConcReq /\ Step(c, n)

ConcCallTool ==
  \E c \in DOMAIN call :
    /\ call[c].pc = "idle"
    /\ \E name \in ConcTools : \E args \in ConcArgs(name) :
         ConcStep(c, callTool(Cfg(authToken, devices,
                                  [IdleCall EXCEPT !.via = "handler", !.tool = name,
                                                   !.args = args]),
                              name, args))

ConcCallGetDevices ==
  \E c \in DOMAIN call :
    /\ call[c].pc = "idle"
    /\ ConcStep(c, getDevices(Cfg(authToken, devices,
                                  [IdleCall EXCEPT !.via = "direct",
                                                   !.tool = "getDevices",
                                                   !.method = "getDevices"])))

ConcAuthResponse ==
  \E c \in DOMAIN call :
    /\ call[c].pc = "AUTH"
    /\ \E status \in ConcStatuses :
         ConcStep(c, authenticateResponse(Here(c), status, ConcAccount))

ConcManifestResponse ==
  \E c \in DOMAIN call :
    /\ call[c].pc = "MANIFEST"
    /\ \E status \in ConcStatuses : \E data \in ConcManifests :
         ConcStep(c, getDevicesResponse(Here(c), status, data))

ConcStateResponse ==
  \E c \in DOMAIN call :
    /\ call[c].pc = "GET"
    /\ \E status \in ConcStatuses :
         ConcStep(c, getDeviceStatusResponse(Here(c), status, ConcWireState))

ConcPatchResponse ==
  \E c \in DOMAIN call :
    /\ call[c].pc = "PATCH"
    /\ \E status \in ConcStatuses :
         ConcStep(c, setDeviceStateResponse(Here(c), status, ConcWireState))

NextConc ==
  \/ ConcCallTool
  \/ ConcCallGetDevices
  \/ ConcAuthResponse
  \/ ConcManifestResponse
  \/ ConcStateResponse
  \/ ConcPatchResponse
  \/ Return

SpecConc == InitConc /\ [][NextConc]_vars

-----------------------------------------------------------------------------
(* The conversions on their own: an input is drawn, the function is applied *)

Pm25Inputs == {Num(n) : n \in (0 - 20)..MaxPm25Tenths} \cup {NaN}

SensorFields == {"pm25", "pact", "hact", "tact", "pm10", "vact", "noxl"}

SensorValues == {<<>>, <<"0">>, <<"1", "3">>}

MainFields ==
  [fpwr |-> "ON", fnsp |-> AUTO, oson |-> "OFF", nmod |-> "OFF", auto |-> "ON"]

WireInputs ==
  {MainFields @@ f : f \in UNION {[D -> SensorValues] : D \in SUBSET SensorFields}}
    \cup {MainFields @@ [hact |-> <<"4", "5">>, tact |-> t] :
            t \in {NatToString(n) : n \in 0..MaxTact}
                     \cup {<<"0">> \o NatToString(n) : n \in 0..MaxTact}}

PureInputs ==
  {[fn |-> "getAirQualityLevel", pm25 |-> x] : x \in Pm25Inputs}
    \cup {[fn |-> "parseAirQuality", state |-> w] : w \in WireInputs}

InitPure ==
  /\ authToken = NoToken
  /\ devices = <<>>
  /\ call = [c \in Calls |-> IdleCall]
  /\ pIn \in PureInputs
  /\ pOut = [fn |-> "none"]
  /\ fetched = FALSE

ApplyGetAirQualityLevel ==
  /\ pIn.fn = "getAirQualityLevel" /\ pOut.fn = "none"
  /\ pOut' = [fn |-> "getAirQualityLevel", out |-> getAirQualityLevel(pIn.pm25)]
  /\ UNCHANGED <<authToken, devices, call, pIn, fetched>>

ApplyParseAirQuality ==
  /\ pIn.fn = "parseAirQuality" /\ pOut.fn = "none"
  /\ pOut' = [fn |-> "parseAirQuality", out |-> parseAirQuality(pIn.state)]
  /\ UNCHANGED <<authToken, devices, call, pIn, fetched>>

NextPure ==
  \/ ApplyGetAirQualityLevel
  \/ ApplyParseAirQuality

SpecPure == InitPure /\ [][NextPure]_vars

-----------------------------------------------------------------------------
(* Properties                                                              *)

\* the positions of the requests of one kind in a request log
Sent(reqs, kind) == {i \in 1..Len(reqs) : reqs[i].kind = kind}

\* the re-authentications of a log: the authentication requests sent after a
\* manifest fetch
Reauthentications(reqs) ==
  {i \in Sent(reqs, "AUTH") : \E j \in Sent(reqs, "MANIFEST") : j < i}

Failed(k, message) == k.pc = "done" /\ k.result = catchError(message)

\* C1: one getDevices call sends at most two manifest fetches and at most one
\* re-authentication, whatever the server answers: a second consecutive 401
\* ends the call with an error.
C1_BoundedRetry ==
  \A c \in DOMAIN call :
    call[c].method = "getDevices" =>
      /\ Cardinality(Sent(call[c].reqs, "MANIFEST")) <= 2
      /\ Cardinality(Reauthentications(call[c].reqs)) <= 1

\* C2: a call fails on a 401 of its state GET or of its state PATCH only after
\* it has re-authenticated once and sent the request a second time: the last
\* three requests of the failed call are the request, the authentication and
\* the same request again.
C2_UnauthorizedRetriedOnce ==
  \A c \in DOMAIN call :
    LET k == call[c]
        n == Len(k.reqs)
    IN (Failed(k, "Failed to get device status: 401")
          \/ Failed(k, "Failed to set device state: 401")) =>
         /\ n >= 3
         /\ k.reqs[n].kind \in {"GET", "PATCH"}
         /\ k.reqs[n - 1].kind = "AUTH"
         /\ k.reqs[n - 2].kind = k.reqs[n].kind
         /\ k.resps[n - 2] = 401

\* a string of decimal digits only that denotes 1 to 10
IsSpeedNumber(s) ==
  /\ Len(s) > 0
  /\ \A i \in 1..Len(s) : s[i] \in Digits
  /\ DigitsValue(s) \in 1..10

\* the call is a set_fan_speed tool call that has reached setFanSpeed
InSetFanSpeed(k) ==
  /\ k.tool = "set_fan_speed"
  /\ "speed" \in DOMAIN k.args
  /\ k.args.speed.type = "string"
  /\ Len(k.args.speed.value) > 0

InvalidFanSpeed == catchError("Fan speed must be 1-10 or \"auto\"")

\* C3: setFanSpeed signals InvalidFanSpeed for every speed that is neither
\* "auto" in some letter case nor a string of digits denoting 1 to 10, and it
\* then sends no request.
C3_InvalidSpeedRejected ==
  \A c \in DOMAIN call :
    LET k == call[c]
    IN (/\ InSetFanSpeed(k)
        /\ k.args.speed.value \notin AutoSpellings
        /\ ~IsSpeedNumber(k.args.speed.value)) =>
         /\ k.reqs = <<>>
         /\ k.pc = "done"
         /\ k.result = InvalidFanSpeed

FourDigits(n) == <<"0", "0", DigitChar(n \div 10), DigitChar(n % 10)>>

\* C4: every state PATCH of a set_fan_speed call carries fpwr = "ON"; for
\* "auto" in any letter case the update is {fnsp AUTO, auto ON, fpwr ON}, for a
\* digit string denoting n in 1..10 it is {fnsp n in four digits, auto OFF,
\* fpwr ON}.
C4_FanSpeedUpdate ==
  \A c \in DOMAIN call :
    LET k == call[c]
    IN InSetFanSpeed(k) =>
         \A i \in Sent(k.reqs, "PATCH") :
           LET update == k.reqs[i].state
               speed == k.args.speed.value
           IN /\ "fpwr" \in DOMAIN update /\ update.fpwr = "ON"
              /\ speed \in AutoSpellings =>
                   update = [fnsp |-> AUTO, auto |-> "ON", fpwr |-> "ON"]
              /\ IsSpeedNumber(speed) =>
                   update = [fnsp |-> FourDigits(DigitsValue(speed)),
                             auto |-> "OFF", fpwr |-> "ON"]

C4_Witness ==
  \E c \in DOMAIN call :
    /\ InSetFanSpeed(call[c])
    /\ call[c].args.speed.value = <<"1", "0">>
    /\ \E i \in Sent(call[c].reqs, "PATCH") :
         call[c].reqs[i].state.fnsp = <<"0", "0", "1", "0">>

Succeeded(k) == k.pc = "done" /\ k.via = "handler" /\ k.status # NoDevice
                  /\ "isError" \notin DOMAIN k.result

\* C5: the request after an answered state PATCH is a state GET for the same
\* serial when the PATCH succeeded, and there is none when it did not: the call
\* then fails with StateUpdateFailed(status).  The status a successful call
\* returns is the projection of the response of its last state GET.
C5_ConfirmingRead ==
  \A c \in DOMAIN call :
    LET k == call[c]
    IN /\ \A i \in Sent(k.reqs, "PATCH") :
            /\ i = Len(k.reqs) /\ i > Len(k.resps) => k.pc = "PATCH"
            /\ i <= Len(k.resps) /\ ok(k.resps[i]) =>
                 /\ Len(k.reqs) > i
                 /\ k.reqs[i + 1].kind = "GET"
                 /\ k.reqs[i + 1].serial = k.reqs[i].serial
            /\ i <= Len(k.resps) /\ ~ok(k.resps[i]) =>
                 /\ Len(k.reqs) = i
                 /\ Failed(k, "Failed to set device state: " \o ToString(k.resps[i]))
       /\ Succeeded(k) =>
            /\ k.reqs[Len(k.reqs)].kind = "GET"
            /\ k.status = projectStatus(k.device, k.getResp)
            /\ k.result.content.text = formatResult(k.tool, k.args, k.status)

C5_Witness ==
  \E c \in DOMAIN call :
    /\ Succeeded(call[c])
    /\ call[c].tool = "set_oscillation"
    /\ Sent(call[c].reqs, "PATCH") # {}
    /\ call[c].status.oscillation

\* the call has been through the lookup of getDevice
AfterLookup(k) ==
  /\ k.method \in {"getDeviceStatus", "setDeviceState"}
  /\ \/ k.pc \in {"GET", "PATCH"}
     \/ /\ k.pc = "done"
        /\ \/ Len(k.reqs) = 0
           \/ k.reqs[Len(k.reqs)].kind \in {"GET", "PATCH"}
           \/ ok(k.resps[Len(k.resps)])

HasSerial(devs, serial) == \E i \in 1..Len(devs) : devs[i].serial = serial

\* what resolveDevice owes a tool call whose device_id is id, byId telling
\* whether the id counts as given
ResolveContract(k, byId, id) ==
  /\ AfterLookup(k) /\ byId /\ HasSerial(devices, id) =>
       /\ k.device # NoDevice
       /\ k.device.serial = id
       /\ k.device = devices[FirstIndex(devices, id)]
  /\ AfterLookup(k) /\ byId /\ ~HasSerial(devices, id) =>
       Failed(k, "Device not found: " \o id)
  /\ AfterLookup(k) /\ ~byId /\ Len(devices) > 0 =>
       /\ k.device # NoDevice
       /\ k.device = devices[1]
  /\ AfterLookup(k) /\ ~byId /\ Len(devices) = 0 =>
       /\ Failed(k, "No Dyson devices found in account")
       /\ Sent(k.reqs, "MANIFEST") # {}

ArgDeviceId(k) == IF "device_id" \in DOMAIN k.args THEN k.args.device_id ELSE Undefined

\* C6, as claimed: an id that is given, the empty string included, is looked
\* up by serial.
C6_Original ==
  \A c \in DOMAIN call :
    call[c].via = "handler" =>
      ResolveContract(call[c], "device_id" \in DOMAIN call[c].args, ArgDeviceId(call[c]))

\* C6, amended: a non-empty id is looked up by serial (the first entry with
\* that serial, DeviceNotFound(id) when there is none); with no id or with the
\* empty string as id the first entry of the directory is returned, and
\* NoDevicesFound when the directory is still empty after the fetch.
C6_ResolveDevice ==
  \A c \in DOMAIN call :
    call[c].via = "handler" =>
      ResolveContract(call[c], Truthy(ArgDeviceId(call[c])), ArgDeviceId(call[c]))

C6_Witness ==
  \E c \in DOMAIN call :
    /\ AfterLookup(call[c])
    /\ ArgDeviceId(call[c]) = ""
    /\ Len(devices) = 2
    /\ call[c].device = devices[1]

Parsed == pOut.fn = "parseAirQuality"

AirQualityFields == {"pm25", "pact", "hact"}

\* C7, as claimed: airQuality is present exactly when pm25, pact or hact is a
\* field of the wire state, whatever its value.
C7_Original ==
  Parsed => (pOut.out # Null <=> \E f \in AirQualityFields : f \in DOMAIN pIn.state)

\* C7, amended: airQuality is present exactly when pm25, pact or hact is a
\* field of the wire state with a value other than the empty string; without
\* such a field it is null, whatever other sensor fields there are, and when
\* present it is the record of the six readings.
C7_AirQualityPresence ==
  Parsed =>
    /\ pOut.out # Null <=>
         \E f \in AirQualityFields : f \in DOMAIN pIn.state /\ pIn.state[f] # <<>>
    /\ pOut.out # Null =>
         DOMAIN pOut.out = {"pm25", "pm10", "voc", "no2", "humidity", "temperature"}

C7_Witness ==
  /\ Parsed
  /\ pOut.out = Null
  /\ "pm25" \in DOMAIN pIn.state /\ pIn.state.pm25 = <<>>
  /\ "tact" \in DOMAIN pIn.state /\ pIn.state.tact = <<"1", "3">>
  /\ "pact" \notin DOMAIN pIn.state /\ "hact" \notin DOMAIN pIn.state

Rank(label) ==
  CASE label = "Good" -> 0
    [] label = "Moderate" -> 1
    [] label = "Unhealthy for Sensitive Groups" -> 2
    [] label = "Unhealthy" -> 3
    [] label = "Very Unhealthy" -> 4
    [] label = "Hazardous" -> 5

\* the band of a reading of v tenths, by its inclusive upper bounds
Band(v) ==
  IF v <= 120 THEN 0 ELSE IF v <= 350 THEN 1 ELSE IF v <= 550 THEN 2
  ELSE IF v <= 1500 THEN 3 ELSE IF v <= 2500 THEN 4 ELSE 5

\* C8: getAirQualityLevel gives every pm25 reading the label of its band, a
\* boundary belonging to the lower band (12 Good, 12.1 Moderate, 35 Moderate,
\* 35.5 Unhealthy for Sensitive Groups, 250 Very Unhealthy, 250.5 Hazardous),
\* and the label never falls when the reading rises.
C8_AirQualityLevel ==
  (pOut.fn = "getAirQualityLevel" /\ ~pIn.pm25.nan) =>
    LET v == pIn.pm25.v
    IN /\ Rank(pOut.out) = Band(v)
       /\ v = 120 => pOut.out = "Good"
       /\ v = 121 => pOut.out = "Moderate"
       /\ v = 350 => pOut.out = "Moderate"
       /\ v = 355 => pOut.out = "Unhealthy for Sensitive Groups"
       /\ v = 2500 => pOut.out = "Very Unhealthy"
       /\ v = 2505 => pOut.out = "Hazardous"
       /\ Rank(getAirQualityLevel(Num(v - 1))) <= Rank(pOut.out)

C8_Witness ==
  /\ pOut.fn = "getAirQualityLevel"
  /\ pIn.pm25 = Num(2500)
  /\ pOut.out = "Very Unhealthy"

IsDigits(s) == Len(s) > 0 /\ \A i \in 1..Len(s) : s[i] \in Digits

\* the temperature of the parsed air quality follows the conversion formula:
\* tenths of a degree, round(T - 2731.5) for the wire value T, a half rounded
\* up, and 0 without a tact value
TemperatureByFormula ==
  (Parsed /\ pOut.out # Null) =>
    /\ ("tact" \in DOMAIN pIn.state /\ IsDigits(pIn.state.tact)) =>
         pOut.out.temperature = Num(DigitsValue(pIn.state.tact) - 2731)
    /\ ("tact" \notin DOMAIN pIn.state \/ pIn.state.tact = <<>>) =>
         pOut.out.temperature = Num(0)

Tact2982 ==
  /\ Parsed /\ pOut.out # Null
  /\ "tact" \in DOMAIN pIn.state /\ pIn.state.tact = <<"2", "9", "8", "2">>

\* C9, as claimed: the temperature follows the formula, and the wire value
\* "2982" converts to 25.0 degrees.
C9_Original ==
  /\ TemperatureByFormula
  /\ Tact2982 => pOut.out.temperature = Num(250)

\* C9, amended: in a status that has air quality, the temperature of a tact of
\* decimal digits is round((tact/10 - 273.15) * 10) / 10, a half rounded up,
\* and 0 when tact is absent or empty; the wire value "2982" (298.2 K, 25.05
\* degrees) converts to 25.1 degrees, and "2981" to 25.0.
C9_Temperature ==
  /\ TemperatureByFormula
  /\ Tact2982 => pOut.out.temperature = Num(251)
  /\ (Parsed /\ pOut.out # Null /\ "tact" \in DOMAIN pIn.state
        /\ pIn.state.tact = <<"2", "9", "8", "1">>) =>
       pOut.out.temperature = Num(250)

C9_Witness == Tact2982 /\ pOut.out.temperature = Num(251)

\* the messages of the errors thrown in the handler and in the client
ErrorMessages ==
  {"Invalid Dyson credentials", "No Dyson devices found in account",
   "Air quality data not available for this device",
   "Fan speed must be 1-10 or \"auto\"", "Speed is required. Use 1-10 or \"auto\"",
   "Enabled parameter is required (true/false)",
   "speed.toUpperCase is not a function"}
    \cup {"Authentication failed: " \o ToString(st) \o " " \o statusText(st) :
            st \in Statuses}
    \cup {"Failed to get devices: " \o ToString(st) : st \in Statuses}
    \cup {"Failed to get device status: " \o ToString(st) : st \in Statuses}
    \cup {"Failed to set device state: " \o ToString(st) : st \in Statuses}
    \cup {"Device not found: " \o d : d \in DeviceIds \ {""}}
    \cup {"Unknown tool: " \o name : name \in ToolNames \ HandlerTools}

\* the tool call went through: its last request is a state GET that was
\* answered with a success status, and get_air_quality found air quality
WentThrough(k) ==
  /\ k.pc = "done"
  /\ Len(k.reqs) > 0 /\ Len(k.resps) = Len(k.reqs)
  /\ k.reqs[Len(k.reqs)].kind = "GET"
  /\ ok(k.resps[Len(k.resps)])
  /\ k.tool = "get_air_quality" => parseAirQuality(k.getResp) # Null

\* C10: a finished tool call has returned a payload, never thrown: a payload
\* with isError = true and a text when the call did not go through (an unknown
\* tool name gives the text "Error: Unknown tool: <name>", a missing argument
\* its own text), and a payload without isError when it went through.
C10_HandlerReturnsPayload ==
  \A c \in DOMAIN call :
    LET k == call[c]
    IN (k.via = "handler" /\ k.pc = "done") =>
         /\ DOMAIN k.result \subseteq {"content", "isError"}
         /\ "content" \in DOMAIN k.result
         /\ k.result.content.type = "text"
         /\ WentThrough(k) => "isError" \notin DOMAIN k.result
         /\ ~WentThrough(k) =>
              /\ "isError" \in DOMAIN k.result
              /\ k.result.isError = TRUE
              /\ \E message \in ErrorMessages : k.result = catchError(message)
         /\ k.tool \notin HandlerTools =>
              k.result = catchError("Unknown tool: " \o k.tool)
         /\ (k.tool = "set_fan_speed" /\ "speed" \notin DOMAIN k.args) =>
              k.result = catchError("Speed is required. Use 1-10 or \"auto\"")
         /\ (k.tool \in {"set_oscillation", "set_night_mode"}
               /\ "enabled" \notin DOMAIN k.args) =>
              k.result = catchError("Enabled parameter is required (true/false)")

C10_Witness ==
  \E c \in DOMAIN call :
    /\ call[c].pc = "done"
    /\ call[c].tool = "reboot"
    /\ call[c].result = catchError("Unknown tool: reboot")


\* the call has ended with the error `message`: in the handler's payload for a
\* tool call, thrown to the caller for a direct call
Signals(k, message) ==
  /\ k.pc = "done"
  /\ k.result = IF k.via = "handler" THEN catchError(message)
                ELSE [thrown |-> message]

AuthenticationError(status) ==
  IF status = 401 THEN "Invalid Dyson credentials"
  ELSE "Authentication failed: " \o ToString(status) \o " " \o statusText(status)

\* one step of call c, seen from authenticate: entering it sends one
\* authentication request; its response either stores the Account read from
\* the body, or ends the call with the error of the status, the token
\* untouched and nothing more sent
AuthenticateContract(c) ==
  LET k == call[c]
      k2 == call'[c]
      n == Len(k.reqs)
  IN /\ (k2 # k /\ k2.pc = "AUTH") =>
          /\ k.pc # "AUTH"
          /\ Len(k2.reqs) = n + 1
          /\ SubSeq(k2.reqs, 1, n) = k.reqs
          /\ k2.reqs[n + 1].kind = "AUTH"
     /\ (k2 # k /\ k.pc = "AUTH") =>
          LET status == k2.resps[Len(k2.resps)]
          IN /\ k2.resps = Append(k.resps, status)
             /\ ok(status) =>
                  /\ k2.data # NoData
                  /\ k2.data.Account \in Accounts
                  /\ authToken' = k2.data.Account
             /\ ~ok(status) =>
                  /\ Signals(k2, AuthenticationError(status))
                  /\ authToken' = authToken
                  /\ k2.reqs = k.reqs

\* C11: authenticate sends exactly one authentication request and never
\* retries: a successful response stores the returned Account as the session
\* token; a 401 ends the call with the invalid-credentials error and any other
\* failure with the authentication-failed error naming the status, and in both
\* cases the token is what it was before and no further request is sent.
C11_Authenticate == [][\A c \in DOMAIN call : AuthenticateContract(c)]_vars

\* a re-authentication (after a manifest 401 cleared the token) was refused:
\* the call has ended with the error and the token is still absent
C11_Witness ==
  \E c \in DOMAIN call :
    LET k == call[c]
        n == Len(k.reqs)
    IN /\ n >= 3 /\ Len(k.resps) = n
       /\ k.reqs[n].kind = "AUTH" /\ k.reqs[n - 1].kind = "MANIFEST"
       /\ k.resps[n] = 500
       /\ Signals(k, AuthenticationError(500))
       /\ authToken = NoToken


\* a device resolution is waiting for the manifest
ManifestInFlight == \E c \in DOMAIN call : call[c].pc = "MANIFEST"

\* C12, as claimed: once one manifest fetch has succeeded, whatever it
\* returned, no device resolution fetches the manifest: no manifest fetch is
\* in flight on a client that has a successful one behind it.
C12_Original == ~(fetched /\ ManifestInFlight)

\* the call has ended in getDevice, with one of its two errors
LookupFailed(k) ==
  \/ Signals(k, "No Dyson devices found in account")
  \/ \E id \in DeviceIds \ {""} : Signals(k, "Device not found: " \o id)

\* one step of call c, seen from the directory
DirectoryContract(c) ==
  LET k == call[c]
      k2 == call'[c]
  IN \* a manifest fetch is sent only while the directory is empty
     /\ (k2 # k /\ k2.pc = "MANIFEST") => devices = <<>> /\ devices' = <<>>
     \* with an empty directory no resolution ends without a manifest response
     /\ (k2 # k /\ k.pc \in {"idle", "AUTH", "PATCH"}
           /\ (k2.pc \in {"GET", "PATCH"} \/ LookupFailed(k2))) => devices # <<>>
     \* the directory changes only as a whole, to the mapped manifest of a
     \* successful response
     /\ (k2 # k /\ devices' # devices) =>
          /\ k.pc = "MANIFEST"
          /\ ok(k2.resps[Len(k2.resps)])
          /\ \E data \in Manifests : devices' = mapManifest(data)

\* C12: over any sequence of tool calls, a device resolution fetches the
\* manifest exactly when the directory is empty at that time: once a manifest
\* with at least one device has been stored, the directory never changes
\* again and no manifest fetch is sent, and the directory is only ever
\* replaced as a whole by a manifest response.
C12_DirectoryCache ==
  [][/\ \A c \in DOMAIN call : DirectoryContract(c)
     /\ devices # <<>> => devices' = devices]_vars

\* the cache is used: with a directory of two devices, a call has sent its
\* state request without any manifest fetch
C12_Witness ==
  \E c \in DOMAIN call :
    /\ Len(devices) = 2
    /\ call[c].pc = "GET"
    /\ Sent(call[c].reqs, "MANIFEST") = {}
    /\ Sent(call[c].reqs, "AUTH") = {}


\* the requests that carry Authorization: Bearer <token>
BearerKinds == {"MANIFEST", "GET", "PATCH"}

\* C13: every Bearer-authenticated request (manifest GET, state GET, state
\* PATCH) is sent while the client holds a session token: the token read when
\* the request is sent is never absent, for a call run alone and for two
\* calls interleaved at their network awaits.
C13_TokenHeldAtSend ==
  \A c \in DOMAIN call :
    \A i \in 1..Len(call[c].reqs) :
      call[c].reqs[i].kind \in BearerKinds => ~TokenAbsent(call[c].reqs[i].token)

====
